---------------------------- MODULE Spec2Model ----------------------------
(***************************************************************************)
(* Model of the Cosmic-Pulse session server (server.ts): the registries of *)
(* players, clients, force fields and territories, the match metadata, and *)
(* the handlers that change them: wss.on('connection'), ws.on('message'),  *)
(* ws.on('close') and the 50 ms setInterval tick.  Node runs each handler  *)
(* to completion, so each handler is one action.                           *)
(* Beside the server stands what each client's store (useGameStore) keeps  *)
(* of the force fields it is sent.                                         *)
(*                                                                         *)
(* Representation:                                                         *)
(*  - a JS Map is a sequence of its values in insertion order;             *)
(*  - null is NULL for strings and NullTime for the timestamp roundEndsAt; *)
(*  - uuidv4() is Uuid(n) for a counter n (fresh, never reused);           *)
(*  - Date.now() is the variable clock, in ms, advanced by the environment;*)
(*  - points are whole numbers: the hit counts clients report are drawn    *)
(*    from multiples of 10, for which the double product amount * 0.1 is   *)
(*    the exact integer amount \div 10;                                    *)
(*  - Player.lastUpdate is written and never read by the server; it is not *)
(*    part of the model.                                                   *)
(***************************************************************************)
EXTENDS Integers, Sequences, FiniteSets, TLC

VARIABLES
    players,        \* Map<string, Player>, insertion order
    clients,        \* Map<string, WebSocket>: [id, readyState], insertion order
    forceFields,    \* Map<string, ForceField>, insertion order
    territories,    \* Map<string, Territory>: function over TerritoryIds
    matchMetadata,  \* phase, roundEndsAt, winningPlayerId, winningColor, scoreboard
    clock,          \* Date.now()
    nextId,         \* number of player uuids handed out so far
    nextForceId,    \* number of force-field uuids handed out so far
    inputs,         \* number of inputs the environment has made so far
    drained,        \* a disconnect emptied the registry mid-round, no tick since
    sent,           \* the messages the last handler sent: <<[to, msg]>>
    mirror,         \* each connected client's store: the force fields it holds
    following,      \* whether this run follows the clients' stores
    event           \* the last handler that ran, its inputs, the world before it

vars == <<players, clients, forceFields, territories, matchMetadata, clock,
          nextId, nextForceId, inputs, drained, sent, mirror, following,
          event>>

-----------------------------------------------------------------------------
(* Bounds of the model *)

\* The inputs of one run: connections, sockets closing, state-changing client
\* messages and clock advances.  Ticks and disconnect handling are not counted.
MaxInputs == 5

\* How far the environment lets the clock run between two handlers.
ClockSteps == {5000, 45000}

\* The hit counts of hit_territory messages (all positive, multiples of 10).
RawAmounts == {50, 100, 2000}

-----------------------------------------------------------------------------
(* Program constants and types *)

NULL == "null"
NullTime == 0 - 1

COLORS == <<"#FF3366", "#33CCFF", "#FF9933", "#33FF99",
            "#CC33FF", "#FFFF33", "#FF3333", "#3333FF">>

COUNTDOWN_DURATION_MS == 5000
MATCH_DURATION_MS == 45000
POST_MATCH_DURATION_MS == 5000
FORCE_TTL_MS == 10500
MAX_POINTS == 100

GamePhase == {"lobby", "countdown", "in_match", "post_match"}

\* The keys of the territories Map, in insertion order.
TerritoryOrder == <<"t1", "t2", "t3">>
TerritoryIds == {TerritoryOrder[i] : i \in 1..Len(TerritoryOrder)}

\* the territories Map as constructed: radius 2.5 is kept as written
TerritoryPosition ==
    [t1 |-> <<0 - 8, 4, 0>>, t2 |-> <<8, 4, 0>>, t3 |-> <<0, 0 - 6, 0>>]
TERRITORY_RADIUS == "2.5"
NewTerritory(t) ==
    [id |-> t, position |-> TerritoryPosition[t], radius |-> TERRITORY_RADIUS,
     points |-> 0, controllingColor |-> NULL]

Uuid(n) == "u" \o ToString(n)

Min(a, b) == IF a <= b THEN a ELSE b
Abs(a) == IF a < 0 THEN 0 - a ELSE a

Range(s) == {s[i] : i \in 1..Len(s)}

\* Map.get / Map.has / Map.delete on a Map kept as a sequence of values with an id
Has(map, id) == \E i \in 1..Len(map) : map[i].id = id
Get(map, id) == map[CHOOSE i \in 1..Len(map) : map[i].id = id]
Delete(map, id) == SelectSeq(map, LAMBDA e : e.id # id)
\* the keys of a Map
Ids(ps) == {ps[i].id : i \in 1..Len(ps)}

-----------------------------------------------------------------------------
(* getNextPlayerColor: the colours the function can return.  One colour    *)
(* while the palette has a free entry, any palette entry (Math.random)     *)
(* once all are held.                                                      *)

\* a colour drawn at random whether or not the palette has a free entry
getNextPlayerColor_Random(ps) == Range(COLORS)

getNextPlayerColor(ps) ==
    LET usedColors == {ps[i].color : i \in 1..Len(ps)}
        free == {i \in 1..Len(COLORS) : COLORS[i] \notin usedColors}
    IN  IF free # {}
        THEN {COLORS[CHOOSE i \in free : \A j \in free : i <= j]}
        ELSE Range(COLORS)

-----------------------------------------------------------------------------
(* The match phase controller.  The functions take and return the world    *)
(* w = [players, clients, forceFields, territories, matchMetadata].        *)

World == [players |-> players, clients |-> clients, forceFields |-> forceFields,
          territories |-> territories, matchMetadata |-> matchMetadata]

serializeMatchMetadata(m) ==
    [phase |-> m.phase, roundEndsAt |-> m.roundEndsAt,
     winningPlayerId |-> m.winningPlayerId, winningColor |-> m.winningColor,
     scoreboard |-> [players |-> m.scoreboard.players,
                     colors |-> m.scoreboard.colors]]

resetRoundState_KeepOwner(w) ==
    [w EXCEPT !.territories =
                  [t \in TerritoryIds |->
                      [w.territories[t] EXCEPT !.points = 0]],
              !.forceFields = <<>>]

\* a reset that takes the owners away and leaves the points
resetRoundState_KeepPoints(w) ==
    [w EXCEPT !.territories =
                  [t \in TerritoryIds |->
                      [w.territories[t] EXCEPT !.controllingColor = NULL]],
              !.forceFields = <<>>]

resetRoundState(w) ==
    [w EXCEPT !.territories =
                  [t \in TerritoryIds |->
                      [w.territories[t] EXCEPT !.points = 0,
                                               !.controllingColor = NULL]],
              !.forceFields = <<>>]

startCountdown_NewScoreboard(w, now) ==
    [w EXCEPT !.matchMetadata =
        [phase |-> "countdown", roundEndsAt |-> now + COUNTDOWN_DURATION_MS,
         winningPlayerId |-> NULL, winningColor |-> NULL,
         scoreboard |-> [players |-> <<>>, colors |-> <<>>]]]

startCountdown_NoDeadline(w, now) ==
    [w EXCEPT !.matchMetadata.phase = "countdown",
              !.matchMetadata.winningPlayerId = NULL,
              !.matchMetadata.winningColor = NULL]

\* a countdown that leaves the last round's winner published
startCountdown_KeepWinner(w, now) ==
    [w EXCEPT !.matchMetadata.phase = "countdown",
              !.matchMetadata.roundEndsAt = now + COUNTDOWN_DURATION_MS]

startCountdown(w, now) ==
    [w EXCEPT !.matchMetadata.phase = "countdown",
              !.matchMetadata.roundEndsAt = now + COUNTDOWN_DURATION_MS,
              !.matchMetadata.winningPlayerId = NULL,
              !.matchMetadata.winningColor = NULL]

startMatch_ShortRound(w, now) ==
    [w EXCEPT !.matchMetadata.phase = "in_match",
              !.matchMetadata.roundEndsAt = now + COUNTDOWN_DURATION_MS]

\* a match started without a deadline
startMatch_NoDeadline(w, now) ==
    [w EXCEPT !.matchMetadata.phase = "in_match",
              !.matchMetadata.roundEndsAt = NullTime]

startMatch(w, now) ==
    [w EXCEPT !.matchMetadata.phase = "in_match",
              !.matchMetadata.roundEndsAt = now + MATCH_DURATION_MS]

\* getWinningPlayerByColor returning the last holder in Map order.
getWinningPlayerByColor_Latest(ps, color) ==
    LET holders == {i \in 1..Len(ps) : ps[i].color = color}
    IN  IF holders = {} THEN NULL
        ELSE ps[CHOOSE i \in holders : \A j \in holders : i >= j].id

\* The first player, in Map order, holding the colour; NULL when none does.
getWinningPlayerByColor(ps, color) ==
    LET holders == {i \in 1..Len(ps) : ps[i].color = color}
    IN  IF holders = {} THEN NULL
        ELSE ps[CHOOSE i \in holders : \A j \in holders : i <= j].id

\* Object.keys(territoryCounts): the controlling colours in the order the
\* aggregation loop first meets them.
RECURSIVE ColorKeys(_, _)
ColorKeys(terr, i) ==
    IF i = 0 THEN <<>>
    ELSE LET before == ColorKeys(terr, i - 1)
             c == terr[TerritoryOrder[i]].controllingColor
         IN  IF c = NULL \/ c \in Range(before) THEN before
             ELSE Append(before, c)

territoryCounts(terr, color) ==
    Cardinality({t \in TerritoryIds : terr[t].controllingColor = color})

RECURSIVE SumPoints(_, _, _)
SumPoints(terr, color, i) ==
    IF i = 0 THEN 0
    ELSE SumPoints(terr, color, i - 1)
         + (IF terr[TerritoryOrder[i]].controllingColor = color
            THEN terr[TerritoryOrder[i]].points ELSE 0)

territoryPoints(terr, color) == SumPoints(terr, color, Len(TerritoryOrder))

\* The winner loop comparing total points before territory counts.
RECURSIVE WinnerScan_PointsFirst(_, _, _)
WinnerScan_PointsFirst(terr, keys, i) ==
    IF i = 0
    THEN [color |-> NULL, count |-> 0 - 1, points |-> 0 - 1]
    ELSE LET best == WinnerScan_PointsFirst(terr, keys, i - 1)
             count == territoryCounts(terr, keys[i])
             points == territoryPoints(terr, keys[i])
         IN  IF points > best.points \/ (points = best.points /\ count > best.count)
             THEN [color |-> keys[i], count |-> count, points |-> points]
             ELSE best

\* The winner loop letting a later key replace an equal earlier one.
RECURSIVE WinnerScan_LastOfEqual(_, _, _)
WinnerScan_LastOfEqual(terr, keys, i) ==
    IF i = 0
    THEN [color |-> NULL, count |-> 0 - 1, points |-> 0 - 1]
    ELSE LET best == WinnerScan_LastOfEqual(terr, keys, i - 1)
             count == territoryCounts(terr, keys[i])
             points == territoryPoints(terr, keys[i])
         IN  IF count > best.count \/ (count = best.count /\ points >= best.points)
             THEN [color |-> keys[i], count |-> count, points |-> points]
             ELSE best

\* The winner loop of endMatch over the first i keys: [color, count, points].
RECURSIVE WinnerScan(_, _, _)
WinnerScan(terr, keys, i) ==
    IF i = 0
    THEN [color |-> NULL, count |-> 0 - 1, points |-> 0 - 1]
    ELSE LET best == WinnerScan(terr, keys, i - 1)
             count == territoryCounts(terr, keys[i])
             points == territoryPoints(terr, keys[i])
         IN  IF count > best.count \/ (count = best.count /\ points > best.points)
             THEN [color |-> keys[i], count |-> count, points |-> points]
             ELSE best

\* (f[k] || 0) + 1 written without the old value.
Bump_FromZero(f, k) ==
    [x \in DOMAIN f \cup {k} |-> IF x = k THEN 1 ELSE f[x]]

\* scoreboard[k] = (scoreboard[k] || 0) + 1
Bump(f, k) ==
    IF k \in DOMAIN f THEN [f EXCEPT ![k] = f[k] + 1]
    ELSE [x \in DOMAIN f \cup {k} |-> IF x = k THEN 1 ELSE f[x]]

endMatch(w, now) ==
    LET keys == ColorKeys(w.territories, Len(TerritoryOrder))
        winningColor == WinnerScan(w.territories, keys, Len(keys)).color
        winningPlayer == IF winningColor # NULL
                         THEN getWinningPlayerByColor(w.players, winningColor)
                         ELSE NULL
        sb == w.matchMetadata.scoreboard
    IN  [w EXCEPT !.matchMetadata =
            [phase |-> "post_match",
             roundEndsAt |-> now + POST_MATCH_DURATION_MS,
             winningPlayerId |-> winningPlayer,
             winningColor |-> winningColor,
             scoreboard |->
                [players |-> IF winningPlayer # NULL
                             THEN Bump(sb.players, winningPlayer) ELSE sb.players,
                 colors |-> IF winningColor # NULL
                            THEN Bump(sb.colors, winningColor) ELSE sb.colors]]]

\* The players.size === 0 branch of updateMatchPhase.
forceLobby_KeepDeadline(w) ==
    [w EXCEPT !.matchMetadata.phase = "lobby",
              !.matchMetadata.winningPlayerId = NULL,
              !.matchMetadata.winningColor = NULL]

forceLobby_AndReset(w) ==
    [w EXCEPT !.matchMetadata.phase = "lobby",
              !.matchMetadata.roundEndsAt = NullTime,
              !.matchMetadata.winningPlayerId = NULL,
              !.matchMetadata.winningColor = NULL,
              !.territories = [t \in TerritoryIds |->
                                 [w.territories[t] EXCEPT !.points = 0,
                                                          !.controllingColor = NULL]],
              !.forceFields = <<>>]

forceLobby(w) ==
    [w EXCEPT !.matchMetadata.phase = "lobby",
              !.matchMetadata.roundEndsAt = NullTime,
              !.matchMetadata.winningPlayerId = NULL,
              !.matchMetadata.winningColor = NULL]

\* !matchMetadata.roundEndsAt || now < matchMetadata.roundEndsAt
roundPending_Never(m, now) == FALSE

roundPending(m, now) ==
    \/ m.roundEndsAt = NullTime
    \/ m.roundEndsAt = 0
    \/ now < m.roundEndsAt

updateMatchPhase(w, now) ==
    IF Len(w.players) = 0
    THEN forceLobby(w)
    ELSE IF w.matchMetadata.phase = "lobby"
    THEN startCountdown(resetRoundState(w), now)
    ELSE IF roundPending(w.matchMetadata, now)
    THEN w
    ELSE IF w.matchMetadata.phase = "countdown" THEN startMatch(w, now)
    ELSE IF w.matchMetadata.phase = "in_match" THEN endMatch(w, now)
    ELSE IF w.matchMetadata.phase = "post_match"
    THEN startCountdown(resetRoundState(w), now)
    ELSE w

-----------------------------------------------------------------------------
(* broadcast: one send per registered client that is not excluded and      *)
(* whose socket is OPEN, in Map order.                                     *)

\* broadcast that does not leave out excludeId
broadcast_NoExclude(cs, data, excludeId) ==
    LET to == SelectSeq(cs, LAMBDA c : c.readyState = "OPEN")
    IN  [i \in 1..Len(to) |-> [to |-> to[i].id, msg |-> data]]

\* broadcast that does not look at readyState
broadcast_AnyState(cs, data, excludeId) ==
    LET to == SelectSeq(cs, LAMBDA c : c.id # excludeId)
    IN  [i \in 1..Len(to) |-> [to |-> to[i].id, msg |-> data]]

broadcast(cs, data, excludeId) ==
    LET to == SelectSeq(cs, LAMBDA c : c.id # excludeId /\ c.readyState = "OPEN")
    IN  [i \in 1..Len(to) |-> [to |-> to[i].id, msg |-> data]]

TerritoryList(terr) == [i \in 1..Len(TerritoryOrder) |-> terr[TerritoryOrder[i]]]

-----------------------------------------------------------------------------
(* Init: the module-level state of server.ts before any connection.        *)

Init ==
    /\ players = <<>>
    /\ clients = <<>>
    /\ forceFields = <<>>
    /\ territories = [t \in TerritoryIds |-> NewTerritory(t)]
    /\ matchMetadata = [phase |-> "lobby", roundEndsAt |-> NullTime,
                        winningPlayerId |-> NULL, winningColor |-> NULL,
                        scoreboard |-> [players |-> <<>>, colors |-> <<>>]]
    /\ clock = 0
    /\ nextId = 0
    /\ nextForceId = 0
    /\ inputs = 0
    /\ drained = FALSE
    /\ sent = <<>>
    /\ mirror = <<>>
    /\ following = FALSE
    /\ event = [handler |-> [type |-> "start"], before |-> World, now |-> clock,
                drained |-> FALSE]

-----------------------------------------------------------------------------
(* The client store (useGameStore): what ws.onmessage does to forceFields. *)
(* The store keys force fields by id; ids are never reused, so the store   *)
(* is the set of its values.                                               *)

clientOnMessage(held, data) ==
    CASE data.type = "init" -> Range(data.forceFields)
      [] data.type = "force_added" -> held \cup {data.force}
      [] data.type = "sync" ->
            IF "forceFields" \in DOMAIN data THEN Range(data.forceFields)
            ELSE held
      [] OTHER -> held   \* player_joined, player_left

\* The stores after the messages of one handler arrive (a handler sends a
\* connection at most one message).
Deliver(stores, msgs) ==
    IF msgs = <<>> THEN stores
    ELSE LET to == {msgs[i].to : i \in 1..Len(msgs)}
         IN  [id \in DOMAIN stores \cup to |->
                LET held == IF id \in DOMAIN stores THEN stores[id] ELSE {}
                IN  IF id \in to
                    THEN clientOnMessage(held,
                            msgs[CHOOSE i \in 1..Len(msgs) : msgs[i].to = id].msg)
                    ELSE held]

\* A store is followed while its connection is open: the next thing the
\* client does is connect() again, which starts from a new init.
Forget(stores, id) == [x \in DOMAIN stores \ {id} |-> stores[x]]

\* The stores are followed in the runs that watch them (following), and
\* left out of the others.
Follow(stores) == IF following THEN stores ELSE mirror

\* What a handler leaves for the observer: which handler ran (e), the world it
\* started from, and the messages it sent.
Record(e, msgs) ==
    /\ event' = [handler |-> e, before |-> World, now |-> clock,
                 drained |-> drained]
    /\ sent' = msgs
    /\ following' = following

Observe(e, msgs) ==
    /\ Record(e, msgs)
    /\ mirror' = Follow(Deliver(mirror, msgs))

-----------------------------------------------------------------------------
(* wss.on('connection') *)

Connection ==
    /\ inputs < MaxInputs
    /\ \E color \in getNextPlayerColor(players) :
         LET id == Uuid(nextId + 1)
             player == [id |-> id, color |-> color, position |-> NULL]
             ps == Append(players, player)
             cs == Append(clients, [id |-> id, readyState |-> "OPEN"])
             init == [type |-> "init", id |-> id, color |-> color,
                      players |-> ps, forceFields |-> forceFields,
                      territories |-> TerritoryList(territories),
                      match |-> serializeMatchMetadata(matchMetadata)]
         IN  /\ players' = ps
             /\ clients' = cs
             /\ Observe([type |-> "connection", id |-> id],
                        <<[to |-> id, msg |-> init]>>
                        \o broadcast(cs, [type |-> "player_joined",
                                          player |-> player], id))
    /\ nextId' = nextId + 1
    /\ inputs' = inputs + 1
    /\ UNCHANGED <<forceFields, territories, matchMetadata, clock,
                   nextForceId, drained>>

-----------------------------------------------------------------------------
(* ws.on('message'): the inbound frames and the branches of the handler    *)

Positions == {"pos"}
ForceTypes == {"attractor"}
ClaimedColors == {COLORS[1]}
\* hits aim at one territory, or at an id that names none
HitTargets == {"t1", "t9"}

CursorFrames == {[type |-> "cursor", position |-> p] : p \in Positions}
AddForceFrames ==
    {[type |-> "add_force", position |-> p, forceType |-> ft, color |-> c] :
        p \in Positions, ft \in ForceTypes, c \in ClaimedColors}
HitFrames ==
    {[type |-> "hit_territory", territoryId |-> t, amount |-> a] :
        t \in HitTargets, a \in RawAmounts}
\* a frame JSON.parse rejects, and a frame of a type the handler does not know
OtherFrames == {[type |-> "#not-json"], [type |-> "ping"]}

\* data.type === 'cursor'
CursorBranch(id, data) ==
    /\ players' = [i \in 1..Len(players) |->
                      IF players[i].id = id
                      THEN [players[i] EXCEPT !.position = data.position]
                      ELSE players[i]]
    /\ Observe([type |-> "message", kind |-> data.type], <<>>)
    /\ IF players' # players
       THEN inputs < MaxInputs /\ inputs' = inputs + 1
       ELSE UNCHANGED inputs
    /\ UNCHANGED <<clients, forceFields, territories, matchMetadata, clock,
                   nextId, nextForceId, drained>>

\* data.type === 'add_force'
AddForceBranch(id, data) ==
    /\ inputs < MaxInputs
    /\ LET force == [id |-> Uuid(nextForceId + 1), position |-> data.position,
                     type |-> data.forceType, ownerId |-> id,
                     createdAt |-> clock, color |-> data.color]
       IN  /\ forceFields' = Append(forceFields, force)
           /\ Observe([type |-> "message", kind |-> data.type, id |-> id,
                       data |-> data],
                      broadcast(clients, [type |-> "force_added",
                                          force |-> force], NULL))
    /\ nextForceId' = nextForceId + 1
    /\ inputs' = inputs + 1
    /\ UNCHANGED <<players, clients, territories, matchMetadata, clock,
                   nextId, drained>>

\* const amount = data.amount * 0.1
ScaleHit(raw) == raw \div 10

ApplyHit_NoOverflow(t, color, raw) ==
    LET amount == ScaleHit(raw)
    IN  IF t.controllingColor = color
        THEN [t EXCEPT !.points = Min(MAX_POINTS, t.points + amount)]
        ELSE LET result == t.points - amount
             IN  IF result <= 0
                 THEN [t EXCEPT !.controllingColor = color, !.points = 0]
                 ELSE [t EXCEPT !.points = result]

ApplyHit_NoSaturate(t, color, raw) ==
    LET amount == ScaleHit(raw)
    IN  IF t.controllingColor = color
        THEN [t EXCEPT !.points = t.points + amount]
        ELSE LET result == t.points - amount
             IN  IF result <= 0
                 THEN [t EXCEPT !.controllingColor = color,
                                !.points = Abs(result)]
                 ELSE [t EXCEPT !.points = result]

\* the arithmetic leaving a territory taken with 0 points without a colour
ApplyHit_NeutralAtZero(t, color, raw) ==
    LET amount == ScaleHit(raw)
    IN  IF t.controllingColor = color
        THEN [t EXCEPT !.points = Min(MAX_POINTS, t.points + amount)]
        ELSE LET result == t.points - amount
             IN  IF result < 0
                 THEN [t EXCEPT !.controllingColor = color,
                                !.points = Abs(result)]
                 ELSE IF result = 0
                 THEN [t EXCEPT !.controllingColor = NULL, !.points = 0]
                 ELSE [t EXCEPT !.points = result]

\* The arithmetic of the hit_territory branch on territory t for a player of
\* colour `color`.
ApplyHit(t, color, raw) ==
    LET amount == ScaleHit(raw)
    IN  IF t.controllingColor = color
        THEN [t EXCEPT !.points = Min(MAX_POINTS, t.points + amount)]
        ELSE LET result == t.points - amount
             IN  IF result <= 0
                 THEN [t EXCEPT !.controllingColor = color,
                                !.points = Abs(result)]
                 ELSE [t EXCEPT !.points = result]

HitApplies_NoPhaseGate(w, id, data) ==
    /\ data.territoryId \in DOMAIN w.territories
    /\ Has(w.players, id)

\* Whether the hit_territory branch reaches the arithmetic.
HitApplies(w, id, data) ==
    /\ w.matchMetadata.phase = "in_match"
    /\ data.territoryId \in DOMAIN w.territories
    /\ Has(w.players, id)

\* a hit credited to the colour the frame names
hitTerritory_ClaimedColor(w, id, data) ==
    [w.territories EXCEPT ![data.territoryId] =
        ApplyHit(@, data.color, data.amount)]

\* The territories after a hit that reaches the arithmetic: the attacker is
\* players.get(id), the entry of the connection the frame came in on.
hitTerritory(w, id, data) ==
    [w.territories EXCEPT ![data.territoryId] =
        ApplyHit(@, Get(w.players, id).color, data.amount)]

\* data.type === 'hit_territory'
HitTerritoryBranch(id, data) ==
    /\ IF HitApplies(World, id, data)
       THEN /\ inputs < MaxInputs
            /\ territories' = hitTerritory(World, id, data)
            /\ inputs' = inputs + 1
            /\ Observe([type |-> "message", kind |-> data.type,
                        applied |-> TRUE, id |-> id, data |-> data], <<>>)
       ELSE /\ UNCHANGED <<territories, inputs>>
            /\ Observe([type |-> "message", kind |-> data.type,
                        applied |-> FALSE], <<>>)
    /\ UNCHANGED <<players, clients, forceFields, matchMetadata, clock,
                   nextId, nextForceId, drained>>

\* a handler that answers a frame it cannot use with an error message
IgnoredFrame_ReplyError(id, data) ==
    /\ Observe([type |-> "message", kind |-> data.type],
               <<[to |-> id, msg |-> [type |-> "error"]]>>)
    /\ UNCHANGED <<players, clients, forceFields, territories, matchMetadata,
                   clock, nextId, nextForceId, inputs, drained>>

\* JSON.parse throws (caught and logged), or no branch matches data.type
IgnoredFrame(id, data) ==
    /\ Observe([type |-> "message", kind |-> data.type], <<>>)
    /\ UNCHANGED <<players, clients, forceFields, territories, matchMetadata,
                   clock, nextId, nextForceId, inputs, drained>>

Message(id, data) ==
    CASE data.type = "cursor" -> CursorBranch(id, data)
      [] data.type = "add_force" -> AddForceBranch(id, data)
      [] data.type = "hit_territory" -> HitTerritoryBranch(id, data)
      [] OTHER -> IgnoredFrame(id, data)

ConnectedIds == {clients[i].id : i \in 1..Len(clients)}

Cursor == \E id \in ConnectedIds, data \in CursorFrames : Message(id, data)
AddForce == \E id \in ConnectedIds, data \in AddForceFrames : Message(id, data)
HitTerritory == \E id \in ConnectedIds, data \in HitFrames : Message(id, data)
Ignored == \E id \in ConnectedIds, data \in OtherFrames : Message(id, data)

-----------------------------------------------------------------------------
(* ws.on('close'), and the socket leaving the OPEN state before it         *)

SocketClosing ==
    /\ \E i \in 1..Len(clients) :
         /\ clients[i].readyState = "OPEN"
         /\ clients' = [clients EXCEPT ![i].readyState = "CLOSING"]
         /\ mirror' = Follow(Forget(mirror, clients[i].id))
    /\ Record([type |-> "closing"], <<>>)
    /\ inputs < MaxInputs
    /\ inputs' = inputs + 1
    /\ UNCHANGED <<players, forceFields, territories, matchMetadata, clock,
                   nextId, nextForceId, drained>>

\* a close handler that leaves the force fields of the player in place
removeOwnedForces_None(ffs, id) == ffs

\* for (const [forceId, force] of forceFields.entries()) if (force.ownerId === id) ...
removeOwnedForces(ffs, id) == SelectSeq(ffs, LAMBDA f : f.ownerId # id)

\* a close handler that itself returns the match to lobby when the last
\* player leaves
Close_ForcesLobby ==
    /\ \E id \in ConnectedIds :
         LET cs == Delete(clients, id)
             msgs == broadcast(cs, [type |-> "player_left", id |-> id], NULL)
         IN  /\ players' = Delete(players, id)
             /\ clients' = cs
             /\ forceFields' = removeOwnedForces(forceFields, id)
             /\ Record([type |-> "close", id |-> id], msgs)
             /\ mirror' = Follow(Forget(Deliver(mirror, msgs), id))
    /\ matchMetadata' = IF Len(players') = 0
                        THEN forceLobby(World).matchMetadata
                        ELSE matchMetadata
    /\ drained' = (drained \/ (Len(players') = 0
                                /\ matchMetadata.phase # "lobby"))
    /\ UNCHANGED <<territories, clock, nextId, nextForceId, inputs>>

Close ==
    /\ \E id \in ConnectedIds :
         LET cs == Delete(clients, id)
             msgs == broadcast(cs, [type |-> "player_left", id |-> id], NULL)
         IN  /\ players' = Delete(players, id)
             /\ clients' = cs
             /\ forceFields' = removeOwnedForces(forceFields, id)
             /\ Record([type |-> "close", id |-> id], msgs)
             /\ mirror' = Follow(Forget(Deliver(mirror, msgs), id))
    /\ drained' = (drained \/ (Len(players') = 0
                                /\ matchMetadata.phase # "lobby"))
    /\ UNCHANGED <<territories, matchMetadata, clock, nextId, nextForceId,
                   inputs>>

-----------------------------------------------------------------------------
(* The setInterval callback: phase evaluation, force-field expiry, sync    *)

\* expiry that already takes a force field at the age of 10500 ms
Expired_Inclusive(f, now) == now - f.createdAt >= FORCE_TTL_MS

Expired(f, now) == now - f.createdAt > FORCE_TTL_MS

\* a sync that lists every player, positioned or not
SyncData_AllPlayers(w, forcesChanged) ==
    IF forcesChanged
    THEN [type |-> "sync", players |-> w.players,
          territories |-> TerritoryList(w.territories),
          match |-> serializeMatchMetadata(w.matchMetadata),
          forceFields |-> w.forceFields]
    ELSE [type |-> "sync", players |-> w.players,
          territories |-> TerritoryList(w.territories),
          match |-> serializeMatchMetadata(w.matchMetadata)]

\* a sync that carries the force-field list on every tick
SyncData_Always(w, forcesChanged) ==
    [type |-> "sync",
     players |-> SelectSeq(w.players, LAMBDA p : p.position # NULL),
     territories |-> TerritoryList(w.territories),
     match |-> serializeMatchMetadata(w.matchMetadata),
     forceFields |-> w.forceFields]

SyncData(w, forcesChanged) ==
    IF forcesChanged
    THEN [type |-> "sync",
          players |-> SelectSeq(w.players, LAMBDA p : p.position # NULL),
          territories |-> TerritoryList(w.territories),
          match |-> serializeMatchMetadata(w.matchMetadata),
          forceFields |-> w.forceFields]
    ELSE [type |-> "sync",
          players |-> SelectSeq(w.players, LAMBDA p : p.position # NULL),
          territories |-> TerritoryList(w.territories),
          match |-> serializeMatchMetadata(w.matchMetadata)]

\* a tick that builds the sync before it expires the force fields
Tick_SyncBeforeExpiry ==
    LET now == clock
        w1 == updateMatchPhase(World, now)
        kept == SelectSeq(w1.forceFields, LAMBDA f : ~Expired(f, now))
        w2 == [w1 EXCEPT !.forceFields = kept]
    IN  /\ matchMetadata' = w2.matchMetadata
        /\ territories' = w2.territories
        /\ forceFields' = w2.forceFields
        /\ Observe([type |-> "tick",
                    forcesChanged |-> Len(kept) # Len(w1.forceFields)],
                   broadcast(clients, SyncData(w1, FALSE), NULL))
        /\ drained' = FALSE
        /\ UNCHANGED <<players, clients, clock, nextId, nextForceId, inputs>>

Tick ==
    LET now == clock
        w1 == updateMatchPhase(World, now)
        kept == SelectSeq(w1.forceFields, LAMBDA f : ~Expired(f, now))
        forcesChanged == Len(kept) # Len(w1.forceFields)
        w2 == [w1 EXCEPT !.forceFields = kept]
    IN  /\ matchMetadata' = w2.matchMetadata
        /\ territories' = w2.territories
        /\ forceFields' = w2.forceFields
        /\ Observe([type |-> "tick", forcesChanged |-> forcesChanged],
                   broadcast(clients, SyncData(w2, forcesChanged), NULL))
        /\ drained' = FALSE
        /\ UNCHANGED <<players, clients, clock, nextId, nextForceId, inputs>>

-----------------------------------------------------------------------------
(* The environment: time passes between handlers.                          *)

AdvanceClock ==
    /\ \E d \in ClockSteps :
         /\ clock' = clock + d
    /\ inputs < MaxInputs
    /\ inputs' = inputs + 1
    /\ Observe([type |-> "clock"], <<>>)
    /\ UNCHANGED <<players, clients, forceFields, territories, matchMetadata,
                   nextId, nextForceId, drained>>

Next ==
    \/ Connection
    \/ Cursor
    \/ AddForce
    \/ HitTerritory
    \/ Ignored
    \/ SocketClosing
    \/ Close
    \/ Tick
    \/ AdvanceClock

Spec == Init /\ [][Next]_vars

-----------------------------------------------------------------------------
(* The same server watched on the time scale of a force field's life: the  *)
(* clock moves in steps around the 10.5 s time to live.                    *)

ForceClockSteps == {500, 10000}

AdvanceClockFine ==
    /\ \E d \in ForceClockSteps :
         /\ clock' = clock + d
    /\ inputs < MaxInputs
    /\ inputs' = inputs + 1
    /\ Observe([type |-> "clock"], <<>>)
    /\ UNCHANGED <<players, clients, forceFields, territories, matchMetadata,
                   nextId, nextForceId, drained>>

NextForce ==
    \/ Connection
    \/ Cursor
    \/ AddForce
    \/ HitTerritory
    \/ Ignored
    \/ SocketClosing
    \/ Close
    \/ Tick
    \/ AdvanceClockFine

SpecForce == Init /\ [][NextForce]_vars

-----------------------------------------------------------------------------
(* The end of a round on its own: the tick that finds an in_match round    *)
(* past its deadline, started from the worlds a round can end in.          *)
(*                                                                         *)
(* Such a world is reached by eight connections that take the whole        *)
(* palette (u1..u8), then the connections u9.. that Math.random() gives    *)
(* any colour, the first eight leaving, and hits during the round.  u1     *)
(* (first palette colour) may have won the two rounds before this one.     *)

\* The players still connected when the round ends.
MaxEndMatchPlayers == 2

EndMatchColors == {COLORS[1], COLORS[2], COLORS[3]}
EndMatchPoints == {2, 5}

EndMatchTerritories ==
    {[points |-> 0, controllingColor |-> NULL]}
    \cup {[points |-> p, controllingColor |-> c] :
            p \in EndMatchPoints, c \in EndMatchColors}

EndMatchScoreboards ==
    {[players |-> <<>>, colors |-> <<>>],
     [players |-> (Uuid(1) :> 2), colors |-> (COLORS[1] :> 2)]}

RoundLength ==
    COUNTDOWN_DURATION_MS + MATCH_DURATION_MS + POST_MATCH_DURATION_MS

InitEndMatch ==
    /\ \E n \in 1..MaxEndMatchPlayers :
         \E cols \in [1..n -> EndMatchColors] :
            /\ players = [i \in 1..n |-> [id |-> Uuid(Len(COLORS) + i),
                                          color |-> cols[i],
                                          position |-> NULL]]
            /\ clients = [i \in 1..n |-> [id |-> Uuid(Len(COLORS) + i),
                                          readyState |-> "OPEN"]]
            /\ nextId = Len(COLORS) + n
    /\ forceFields = <<>>
    /\ \E terr \in [TerritoryIds -> EndMatchTerritories] :
          territories =
             [t \in TerritoryIds |->
                 [NewTerritory(t) EXCEPT
                     !.points = terr[t].points,
                     !.controllingColor = terr[t].controllingColor]]
    /\ \E sb \in EndMatchScoreboards :
          matchMetadata = [phase |-> "in_match",
                           roundEndsAt |-> 3 * RoundLength
                                           - POST_MATCH_DURATION_MS,
                           winningPlayerId |-> NULL, winningColor |-> NULL,
                           scoreboard |-> sb]
    \* the tick runs every 50 ms: at the deadline, or up to 50 ms after it
    /\ clock \in {3 * RoundLength - POST_MATCH_DURATION_MS,
                  3 * RoundLength - POST_MATCH_DURATION_MS + 50}
    /\ nextForceId = 0
    /\ inputs = 0
    /\ drained = FALSE
    /\ sent = <<>>
    /\ mirror = <<>>
    /\ following = FALSE
    /\ event = [handler |-> [type |-> "start"], before |-> World, now |-> clock,
                drained |-> FALSE]

NextEndMatch == Tick

SpecEndMatch == InitEndMatch /\ [][NextEndMatch]_vars

-----------------------------------------------------------------------------
(* Connections around a full palette.  Eight clients have connected before *)
(* the first tick and hold the palette in order (u1..u8); any of them may  *)
(* have left again.  From there further clients connect.                   *)

\* The connections the environment still makes.
MaxConnects == 2

\* the k-th smallest member of a set of numbers
Kth(S, k) == CHOOSE i \in S : Cardinality({j \in S : j < i}) = k - 1

InitConnect ==
    /\ \E held \in SUBSET (1..Len(COLORS)) :
          /\ players = [k \in 1..Cardinality(held) |->
                           [id |-> Uuid(Kth(held, k)),
                            color |-> COLORS[Kth(held, k)],
                            position |-> NULL]]
          /\ clients = [k \in 1..Cardinality(held) |->
                           [id |-> Uuid(Kth(held, k)), readyState |-> "OPEN"]]
    /\ mirror = <<>>
    /\ following = FALSE
    /\ nextId = Len(COLORS)
    /\ forceFields = <<>>
    /\ territories = [t \in TerritoryIds |-> NewTerritory(t)]
    /\ matchMetadata = [phase |-> "lobby", roundEndsAt |-> NullTime,
                        winningPlayerId |-> NULL, winningColor |-> NULL,
                        scoreboard |-> [players |-> <<>>, colors |-> <<>>]]
    /\ clock = 0
    /\ nextForceId = 0
    /\ inputs = MaxInputs - MaxConnects
    /\ drained = FALSE
    /\ sent = <<>>
    /\ event = [handler |-> [type |-> "start"], before |-> World, now |-> clock,
                drained |-> FALSE]

NextConnect == Connection

SpecConnect == InitConnect /\ [][NextConnect]_vars

-----------------------------------------------------------------------------
(* The race of a client message with its connection's disconnect: the      *)
(* message handler of a connection runs once more after the close handler  *)
(* has removed its player.  The handler closes over id, so it runs the     *)
(* same branches with an id the registry no longer has.                    *)

\* the ids handed out to connections that have been closed since
DepartedIds == {Uuid(n) : n \in 1..nextId} \ Ids(players)

LateMessage ==
    \E id \in DepartedIds,
       data \in CursorFrames \cup AddForceFrames \cup HitFrames :
        Message(id, data)

NextLate ==
    \/ Next
    \/ LateMessage

SpecLate == Init /\ [][NextLate]_vars

-----------------------------------------------------------------------------
(* Clients that write what they like into their frames: a hit_territory    *)
(* that names a colour and a player id, an add_force that names an owner.  *)
(* The handler parses any JSON object and reads the fields it knows.       *)

ClaimedIds == {Uuid(1), Uuid(2)}
ClaimedHitColors == {COLORS[1], COLORS[2]}

\* the hit_territory frames for one territory id and one hit count
ClaimedHits(t, a) ==
    {[type |-> "hit_territory", territoryId |-> t, amount |-> a,
      color |-> c, playerId |-> i] :
        c \in ClaimedHitColors, i \in ClaimedIds}
ClaimedHitFrames ==
    UNION {ClaimedHits(t, a) : t \in HitTargets, a \in RawAmounts}
ClaimedAddForceFrames ==
    {[type |-> "add_force", position |-> p, forceType |-> ft, color |-> c,
      ownerId |-> i] :
        p \in Positions, ft \in ForceTypes, c \in ClaimedColors,
        i \in ClaimedIds}

ClaimedHit ==
    \E id \in ConnectedIds, data \in ClaimedHitFrames : Message(id, data)
ClaimedAddForce ==
    \E id \in ConnectedIds, data \in ClaimedAddForceFrames : Message(id, data)

NextClaimed ==
    \/ Connection
    \/ Cursor
    \/ ClaimedHit
    \/ ClaimedAddForce
    \/ Tick
    \/ AdvanceClock

SpecClaimed == Init /\ [][NextClaimed]_vars

-----------------------------------------------------------------------------
(* The server together with its clients' stores: the same handlers, each   *)
(* open connection's store following the messages it is sent.              *)

InitStores ==
    /\ players = <<>>
    /\ clients = <<>>
    /\ forceFields = <<>>
    /\ territories = [t \in TerritoryIds |-> NewTerritory(t)]
    /\ matchMetadata = [phase |-> "lobby", roundEndsAt |-> NullTime,
                        winningPlayerId |-> NULL, winningColor |-> NULL,
                        scoreboard |-> [players |-> <<>>, colors |-> <<>>]]
    /\ clock = 0
    /\ nextId = 0
    /\ nextForceId = 0
    /\ inputs = 0
    /\ drained = FALSE
    /\ sent = <<>>
    /\ mirror = <<>>
    /\ following = TRUE
    /\ event = [handler |-> [type |-> "start"], before |-> World, now |-> clock,
                drained |-> FALSE]

SpecStores == InitStores /\ [][Next]_vars

-----------------------------------------------------------------------------
(* The round on its own: the handlers that read or write the territories,  *)
(* the match metadata or the membership of the player registry.  Cursor    *)
(* and add_force messages, frames the handler ignores and sockets on their *)
(* way to closing touch none of these.                                     *)

NextRound ==
    \/ Connection
    \/ HitTerritory
    \/ Close
    \/ Tick
    \/ AdvanceClock

SpecRound == Init /\ [][NextRound]_vars

-----------------------------------------------------------------------------
(* The match cycle under the interval timer.  One player connects, at any  *)
(* moment, and stays; the 50 ms timer keeps firing, so the clock never     *)
(* moves twice without a tick in between.  The clock is followed up to     *)
(* MaxClock.                                                               *)

MaxClock == 130000
CycleSteps == {2500, 5000}

TimePasses ==
    /\ event.handler.type = "tick"
    /\ \E d \in CycleSteps :
         /\ clock + d <= MaxClock
         /\ clock' = clock + d
    /\ Observe([type |-> "clock"], <<>>)
    /\ UNCHANGED <<players, clients, forceFields, territories, matchMetadata,
                   nextId, nextForceId, inputs, drained>>

InitCycle ==
    /\ players = <<>>
    /\ clients = <<>>
    /\ forceFields = <<>>
    /\ territories = [t \in TerritoryIds |-> NewTerritory(t)]
    /\ matchMetadata = [phase |-> "lobby", roundEndsAt |-> NullTime,
                        winningPlayerId |-> NULL, winningColor |-> NULL,
                        scoreboard |-> [players |-> <<>>, colors |-> <<>>]]
    /\ clock = 0
    /\ nextId = 0
    /\ nextForceId = 0
    /\ inputs = MaxInputs - 1
    /\ drained = FALSE
    /\ sent = <<>>
    /\ mirror = <<>>
    /\ following = FALSE
    /\ event = [handler |-> [type |-> "start"], before |-> World, now |-> clock,
                drained |-> FALSE]

NextCycle ==
    \/ Connection
    \/ Tick
    \/ TimePasses

\* the timer fires again and again, and time does not stand still
SpecCycle ==
    InitCycle /\ [][NextCycle]_vars /\ WF_vars(Tick) /\ WF_vars(TimePasses)

-----------------------------------------------------------------------------
(* Vocabulary of the properties: the last handler and the world before it. *)

Before == event.before
Phase == matchMetadata.phase

IsTick == event.handler.type = "tick"
IsHit == event.handler.type = "message" /\ event.handler.kind = "hit_territory"
\* the last handler was a hit_territory that reached the capture arithmetic
IsAppliedHit == IsHit /\ event.handler.applied

\* of an applied hit: the territory before and after, the attacker's colour
HitTarget == event.handler.data.territoryId
HitColor == Get(Before.players, event.handler.id).color
HitAmount == event.handler.data.amount

Neutral(terr) ==
    \A t \in TerritoryIds : terr[t].points = 0 /\ terr[t].controllingColor = NULL

-----------------------------------------------------------------------------
(* C1: with positive hit amounts only, every territory's points value lies *)
(* within [0,100] in every state between events.                           *)
C1_PointsWithinRange ==
    \A t \in TerritoryIds : territories[t].points \in 0..100

(* C2: a hit applied in in_match by a player whose colour differs from the *)
(* territory's controllingColor subtracts amount = rawHitCount x 0.1; a    *)
(* result > 0 keeps the owner and becomes the points, a result <= 0 makes  *)
(* the attacker's colour the owner and its absolute value the points.      *)
(* (Stated on ten times the values, so that the raw count is not scaled.)  *)
C2_AttackRule ==
    (IsAppliedHit /\ HitColor # Before.territories[HitTarget].controllingColor) =>
        LET old == Before.territories[HitTarget]
            new == territories[HitTarget]
            result10 == 10 * old.points - HitAmount
        IN  /\ Before.matchMetadata.phase = "in_match"
            /\ result10 > 0 => /\ new.controllingColor = old.controllingColor
                               /\ 10 * new.points = result10
            /\ result10 <= 0 => /\ new.controllingColor = HitColor
                                /\ 10 * new.points = 0 - result10

\* the spec's example: owner A with 5 points, scaled hit 10 by B: owner B, 5 points
C2_Witness ==
    /\ IsAppliedHit
    /\ Before.territories[HitTarget].points = 5
    /\ Before.territories[HitTarget].controllingColor \notin {NULL, HitColor}
    /\ HitAmount = 100
    /\ territories[HitTarget].controllingColor = HitColor
    /\ territories[HitTarget].points = 5

(* C3: a hit applied in in_match by a player whose colour equals the       *)
(* territory's controllingColor sets points to                             *)
(* min(100, points + rawHitCount x 0.1) and leaves the owner unchanged.    *)
C3_ReinforceRule ==
    (IsAppliedHit /\ HitColor = Before.territories[HitTarget].controllingColor) =>
        LET old == Before.territories[HitTarget]
            new == territories[HitTarget]
            sum10 == 10 * old.points + HitAmount
        IN  /\ Before.matchMetadata.phase = "in_match"
            /\ new.controllingColor = old.controllingColor
            /\ 10 * new.points = (IF sum10 <= 1000 THEN sum10 ELSE 1000)

\* a reinforcement that saturates: the sum passes 100 and points becomes 100
C3_Witness ==
    /\ IsAppliedHit
    /\ HitColor = Before.territories[HitTarget].controllingColor
    /\ 10 * Before.territories[HitTarget].points + HitAmount > 1000
    /\ Before.territories[HitTarget].points < 100
    /\ territories[HitTarget].points = 100

(* C4: a hit_territory handled while the phase is lobby, countdown or      *)
(* post_match changes nothing (players, clients, force fields,             *)
(* territories, match metadata) and sends nothing.                         *)
C4_HitOutsideMatchIsNoOp ==
    (IsHit /\ Before.matchMetadata.phase \in {"lobby", "countdown", "post_match"}) =>
        /\ World = Before
        /\ sent = <<>>

\* a hit handled in post_match on a world with a captured territory and a
\* connected sender
C4_Witness ==
    /\ IsHit
    /\ Phase = "post_match"
    /\ Len(players) > 0
    /\ \E t \in TerritoryIds : territories[t].points > 0

(* C5: the phase changes only inside a tick, and the change is one of:     *)
(* any -> lobby (zero players), lobby -> countdown (a player connected),   *)
(* countdown -> in_match, in_match -> post_match, post_match -> countdown  *)
(* (these three only when now >= roundEndsAt).  No phase is skipped.       *)
C5_PhaseTransitions ==
    (Before.matchMetadata.phase # Phase) =>
        LET from == Before.matchMetadata.phase
            due == /\ Before.matchMetadata.roundEndsAt # NullTime
                   /\ event.now >= Before.matchMetadata.roundEndsAt
        IN  /\ IsTick
            /\ \/ Phase = "lobby" /\ Len(Before.players) = 0
               \/ from = "lobby" /\ Phase = "countdown" /\ Len(Before.players) >= 1
               \/ from = "countdown" /\ Phase = "in_match" /\ due
               \/ from = "in_match" /\ Phase = "post_match" /\ due
               \/ from = "post_match" /\ Phase = "countdown" /\ due

\* a tick 40 s after the countdown's deadline enters in_match, not a later phase
C5_Witness ==
    /\ IsTick
    /\ Before.matchMetadata.phase = "countdown"
    /\ event.now >= Before.matchMetadata.roundEndsAt + 40000
    /\ Phase = "in_match"

(* C6: with a player connected, a tick at now < roundEndsAt leaves the     *)
(* match metadata unchanged; the tick that enters countdown sets           *)
(* roundEndsAt = now + 5000, the one that enters in_match now + 45000, the *)
(* one that enters post_match now + 5000.                                  *)
C6_PhaseDurations ==
    (IsTick /\ Len(Before.players) >= 1) =>
        LET m == Before.matchMetadata
        IN  /\ (m.roundEndsAt # NullTime /\ event.now < m.roundEndsAt)
                  => matchMetadata = m
            /\ (m.phase # Phase /\ Phase = "countdown")
                  => matchMetadata.roundEndsAt = event.now + 5000
            /\ (m.phase # Phase /\ Phase = "in_match")
                  => matchMetadata.roundEndsAt = event.now + 45000
            /\ (m.phase # Phase /\ Phase = "post_match")
                  => matchMetadata.roundEndsAt = event.now + 5000

\* a tick 5 s into the match, before its deadline, that changed nothing
C6_Witness ==
    /\ IsTick
    /\ Len(players) >= 1
    /\ Phase = "in_match"
    /\ event.now = matchMetadata.roundEndsAt - 40000
    /\ matchMetadata = Before.matchMetadata

(* C7: a tick that runs while zero players are connected sets phase lobby, *)
(* roundEndsAt, winningPlayerId and winningColor null, leaves the          *)
(* scoreboard unchanged and performs no round reset and no countdown start *)
(* (territories as before; no force field removed but the expired ones).   *)
C7_EmptyTick ==
    (IsTick /\ Len(Before.players) = 0) =>
        /\ Phase = "lobby"
        /\ matchMetadata.roundEndsAt = NullTime
        /\ matchMetadata.winningPlayerId = NULL
        /\ matchMetadata.winningColor = NULL
        /\ matchMetadata.scoreboard = Before.matchMetadata.scoreboard
        /\ territories = Before.territories
        /\ forceFields = SelectSeq(Before.forceFields,
                                   LAMBDA f : ~(event.now - f.createdAt > 10500))

\* a tick with nobody connected, after a match that had a winner, with a
\* captured territory left as it was
C7_Witness ==
    /\ IsTick
    /\ Len(players) = 0
    /\ Before.matchMetadata.phase = "post_match"
    /\ Before.matchMetadata.winningColor # NULL
    /\ Phase = "lobby"
    /\ \E t \in TerritoryIds : territories[t].controllingColor # NULL

(* C8, as claimed: if the last connected player disconnects while the      *)
(* phase is countdown, in_match or post_match, the state right after the   *)
(* next tick has phase lobby and roundEndsAt null, whatever happens        *)
(* between that disconnect and that tick (new connections included).       *)
C8_LobbyAfterDrain ==
    (IsTick /\ event.drained) =>
        /\ Phase = "lobby"
        /\ matchMetadata.roundEndsAt = NullTime

(* C8, amended: the same, provided no player is connected when that tick   *)
(* runs.                                                                   *)
C8_LobbyAfterDrainIfStillEmpty ==
    (IsTick /\ event.drained /\ Len(Before.players) = 0) =>
        /\ Phase = "lobby"
        /\ matchMetadata.roundEndsAt = NullTime

\* the registry drained during a match, somebody connected and left again,
\* and the next tick found nobody
C8_Witness ==
    /\ IsTick
    /\ event.drained
    /\ Len(players) = 0
    /\ nextId >= 2
    /\ Before.matchMetadata.phase = "in_match"
    /\ Phase = "lobby"

(* C9: in every reachable state, roundEndsAt is null if and only if the    *)
(* phase is lobby.                                                         *)
C9_DeadlineIffNotLobby ==
    (matchMetadata.roundEndsAt = NullTime) <=> (Phase = "lobby")

\* back in the lobby, the deadline cleared, after a round had been running
C9_Witness ==
    /\ IsTick
    /\ Before.matchMetadata.phase = "in_match"
    /\ Before.matchMetadata.roundEndsAt # NullTime
    /\ Phase = "lobby"
    /\ matchMetadata.roundEndsAt = NullTime

(* C10: every tick that takes the phase from lobby or from post_match to   *)
(* countdown leaves every territory with points 0 and controllingColor     *)
(* null, and the force-field set empty.                                    *)
C10_ResetOnCountdown ==
    (IsTick /\ Before.matchMetadata.phase \in {"lobby", "post_match"}
            /\ Phase = "countdown") =>
        /\ Neutral(territories)
        /\ forceFields = <<>>

\* a lobby -> countdown tick that found a captured territory and a live force
\* field to clear
C10_Witness ==
    /\ IsTick
    /\ Before.matchMetadata.phase = "lobby"
    /\ Phase = "countdown"
    /\ ~Neutral(Before.territories)
    /\ Before.forceFields # <<>>

-----------------------------------------------------------------------------
(* The end of a round: vocabulary                                          *)

\* the last handler was the tick that took the round from in_match to post_match
EndedMatch ==
    IsTick /\ Before.matchMetadata.phase = "in_match" /\ Phase = "post_match"

Controlling(terr) ==
    {terr[t].controllingColor : t \in TerritoryIds} \ {NULL}
CountOf(terr, c) ==
    Cardinality({t \in TerritoryIds : terr[t].controllingColor = c})
OwnedPoints(terr, c, t) ==
    IF terr[t].controllingColor = c THEN terr[t].points ELSE 0
PointsOf(terr, c) ==
    OwnedPoints(terr, c, "t1") + OwnedPoints(terr, c, "t2")
    + OwnedPoints(terr, c, "t3")
\* colour a ranks strictly above colour b
Outranks(terr, a, b) ==
    \/ CountOf(terr, a) > CountOf(terr, b)
    \/ CountOf(terr, a) = CountOf(terr, b) /\ PointsOf(terr, a) > PointsOf(terr, b)
\* the place in t1, t2, t3 of the first territory colour c controls
FirstPlace(terr, c) ==
    CHOOSE i \in 1..Len(TerritoryOrder) :
        /\ terr[TerritoryOrder[i]].controllingColor = c
        /\ \A j \in 1..(i - 1) : terr[TerritoryOrder[j]].controllingColor # c

-----------------------------------------------------------------------------
\* C11: at the in_match -> post_match transition the winning colour is a
\* colour controlling the most territories, and among those one with the
\* largest sum of points; it is null exactly when no territory is controlled.
C11_WinningColor ==
    EndedMatch =>
        LET terr == Before.territories
            w == matchMetadata.winningColor
        IN  /\ Controlling(terr) = {} => w = NULL
            /\ Controlling(terr) # {} =>
                  /\ w \in Controlling(terr)
                  /\ \A c \in Controlling(terr) : ~Outranks(terr, c, w)

\* a round won on territory count against a colour with more points
C11_Witness ==
    /\ EndedMatch
    /\ \E c \in Controlling(Before.territories) :
          /\ CountOf(Before.territories, c)
               < CountOf(Before.territories, matchMetadata.winningColor)
          /\ PointsOf(Before.territories, c)
               > PointsOf(Before.territories, matchMetadata.winningColor)

-----------------------------------------------------------------------------
\* C12: when colours tie on both territory count and total points, the winner
\* is the one whose first territory comes first in the order t1, t2, t3.
C12_TieByTerritoryOrder ==
    EndedMatch =>
        LET terr == Before.territories
            w == matchMetadata.winningColor
        IN  \A c \in Controlling(terr) \ {w} :
               (/\ w # NULL
                /\ CountOf(terr, c) = CountOf(terr, w)
                /\ PointsOf(terr, c) = PointsOf(terr, w))
               => FirstPlace(terr, w) < FirstPlace(terr, c)

\* three colours with one territory and the same points each
C12_Witness ==
    /\ EndedMatch
    /\ Cardinality(Controlling(Before.territories)) = 3
    /\ \A c \in Controlling(Before.territories) :
          PointsOf(Before.territories, c)
            = PointsOf(Before.territories, matchMetadata.winningColor)
    /\ matchMetadata.winningColor = Before.territories["t1"].controllingColor

-----------------------------------------------------------------------------
\* C13: with a non-null winning colour, winningPlayerId is the id of the
\* earliest-connected player among those connected with that colour, and null
\* when no connected player has it.
C13_WinningPlayer ==
    EndedMatch =>
        LET w == matchMetadata.winningColor
            holders == {i \in 1..Len(players) : players[i].color = w}
        IN  IF w = NULL \/ holders = {}
            THEN matchMetadata.winningPlayerId = NULL
            ELSE \E i \in holders :
                    /\ \A j \in holders : i <= j
                    /\ matchMetadata.winningPlayerId = players[i].id

\* two connected players hold the winning colour
C13_Witness ==
    /\ EndedMatch
    /\ matchMetadata.winningColor # NULL
    /\ Cardinality({i \in 1..Len(players) :
                      players[i].color = matchMetadata.winningColor}) = 2
    /\ matchMetadata.winningPlayerId = players[1].id

-----------------------------------------------------------------------------
\* C14: the in_match -> post_match transition with winning colour c raises
\* scoreboard.colors[c] by exactly 1 and, with a winning player, that player's
\* scoreboard.players entry by exactly 1 (a missing entry counts as 0), and
\* changes no other entry; with no winner the scoreboard is unchanged.
Raised(old, new, k) ==
    /\ DOMAIN new = DOMAIN old \cup {k}
    /\ new[k] = (IF k \in DOMAIN old THEN old[k] ELSE 0) + 1
    /\ \A x \in DOMAIN old \ {k} : new[x] = old[x]

C14_ScoreboardIncrement ==
    EndedMatch =>
        LET old == Before.matchMetadata.scoreboard
            new == matchMetadata.scoreboard
            c == matchMetadata.winningColor
            p == matchMetadata.winningPlayerId
        IN  /\ IF c # NULL THEN Raised(old.colors, new.colors, c)
                           ELSE new.colors = old.colors
            /\ IF p # NULL THEN Raised(old.players, new.players, p)
                           ELSE new.players = old.players

\* the winning colour already had wins, the winning player had none yet, and
\* another player's entry stands beside it
C14_Witness ==
    /\ EndedMatch
    /\ matchMetadata.winningColor
         \in DOMAIN Before.matchMetadata.scoreboard.colors
    /\ matchMetadata.winningPlayerId # NULL
    /\ matchMetadata.winningPlayerId
         \notin DOMAIN Before.matchMetadata.scoreboard.players
    /\ DOMAIN Before.matchMetadata.scoreboard.players # {}
    /\ matchMetadata.scoreboard.colors[matchMetadata.winningColor] = 3

-----------------------------------------------------------------------------
\* C15: over any handler, round resets and the forced return to lobby
\* included, no scoreboard entry is removed and no counter decreases.
NotLess(old, new) ==
    \A k \in DOMAIN old : k \in DOMAIN new /\ new[k] >= old[k]

C15_ScoreboardMonotone ==
    /\ NotLess(Before.matchMetadata.scoreboard.players,
               matchMetadata.scoreboard.players)
    /\ NotLess(Before.matchMetadata.scoreboard.colors,
               matchMetadata.scoreboard.colors)

\* a round reset (post_match -> countdown) that finds a scoreboard with a win
C15_Witness ==
    /\ IsTick
    /\ Before.matchMetadata.phase = "post_match"
    /\ Phase = "countdown"
    /\ DOMAIN Before.matchMetadata.scoreboard.colors # {}
    /\ DOMAIN Before.matchMetadata.scoreboard.players # {}

-----------------------------------------------------------------------------
(* Force fields: vocabulary                                                *)

\* the last handler was a tick that reset the round (resetRoundState ran)
RoundReset == IsTick /\ Phase = "countdown"
                     /\ Before.matchMetadata.phase # "countdown"

Young(f) == event.now - f.createdAt <= FORCE_TTL_MS
\* no handler but the tick drops a force field whose owner is still connected
OwnedStay ==
    ~IsTick => \A f \in Range(Before.forceFields) :
                  f.ownerId \in Ids(players) => f \in Range(forceFields)

-----------------------------------------------------------------------------
\* C16 (as stated): a force field whose owner stays connected is removed by
\* no handler but a tick, and every tick removes exactly the force fields
\* with now - createdAt > 10500 and keeps every other one; so a force field
\* created at t0 is present at t0 + 10000 and absent after a tick at
\* t0 + 11000.
C16_ForceFieldLifetime ==
    /\ OwnedStay
    /\ IsTick => forceFields = SelectSeq(Before.forceFields, Young)

\* C16 (amended): the same for every tick that does not reset the round; a
\* tick that resets the round (lobby or post_match -> countdown) removes
\* every force field whatever its age.
C16_ForceFieldLifetimeBarReset ==
    /\ OwnedStay
    /\ (IsTick /\ ~RoundReset)
          => forceFields = SelectSeq(Before.forceFields, Young)
    /\ RoundReset => forceFields = <<>>

\* a tick 11000 ms after a creation removes that force field, its owner
\* still connected, with no round reset
C16_Witness ==
    /\ IsTick /\ ~RoundReset
    /\ \E f \in Range(Before.forceFields) :
          /\ event.now - f.createdAt = 11000
          /\ f.ownerId \in Ids(players)
          /\ f \notin Range(forceFields)

-----------------------------------------------------------------------------
\* C17: a sync message carries forceFields if and only if the expiry step of
\* its tick removed at least one force field, and then the list is exactly
\* the force fields left after that expiry; a tick with no expiry omits it.
ExpiryRemoved ==
    ~RoundReset /\ \E f \in Range(Before.forceFields) : ~Young(f)

C17_ForceFieldsInSync ==
    IsTick =>
        \A i \in 1..Len(sent) :
            /\ sent[i].msg.type = "sync"
            /\ ("forceFields" \in DOMAIN sent[i].msg) <=> ExpiryRemoved
            /\ ("forceFields" \in DOMAIN sent[i].msg)
                  => sent[i].msg.forceFields = forceFields

\* a sync sent after an expiry that removed one force field and left another
C17_Witness ==
    /\ IsTick
    /\ sent # <<>>
    /\ "forceFields" \in DOMAIN sent[1].msg
    /\ sent[1].msg.forceFields # <<>>
    /\ Len(Before.forceFields) > Len(forceFields)

-----------------------------------------------------------------------------
\* C18: a client that starts from init and applies every force_added and
\* every forceFields list of a sync holds, after each sync it receives, the
\* same force fields as the server.
C18_ClientMirror ==
    IsTick => \A i \in 1..Len(sent) : mirror[sent[i].to] = Range(forceFields)

-----------------------------------------------------------------------------
\* C19: when the close handler of player p has run and sent player_left, p is
\* no longer in the registry and no force field owned by p remains; the
\* message {type: player_left, id: p} went to every remaining connection
\* that is open, once each, and to nobody else (so not to p).
IsClose == event.handler.type = "close"

C19_PlayerLeft ==
    IsClose =>
        LET p == event.handler.id
            open == SelectSeq(clients, LAMBDA c : c.readyState = "OPEN")
        IN  /\ p \notin Ids(players)
            /\ \A f \in Range(forceFields) : f.ownerId # p
            /\ sent = [i \in 1..Len(open) |->
                          [to |-> open[i].id,
                           msg |-> [type |-> "player_left", id |-> p]]]
            /\ \A i \in 1..Len(sent) : sent[i].to # p

\* a player that owned a force field leaves; one remaining client is open and
\* is told, another is no longer open and is not
C19_Witness ==
    /\ IsClose
    /\ \E f \in Range(Before.forceFields) : f.ownerId = event.handler.id
    /\ sent # <<>>
    /\ Len(sent) < Len(clients)

-----------------------------------------------------------------------------
\* C20: no message carries a force field whose owner is not in the player
\* registry when the message is sent: not the forceFields of init, not the
\* force of force_added, not the forceFields of a sync.
ForcesIn(m) ==
    CASE m.type = "init" -> Range(m.forceFields)
      [] m.type = "force_added" -> {m.force}
      [] m.type = "sync" /\ "forceFields" \in DOMAIN m -> Range(m.forceFields)
      [] OTHER -> {}

C20_NoOrphanInMessages ==
    \A i \in 1..Len(sent) :
        \A f \in ForcesIn(sent[i].msg) : f.ownerId \in Ids(players)

\* a client connects after a player left and a force field was removed, and
\* its init carries a force field that remains
C20_Witness ==
    /\ event.handler.type = "connection"
    /\ \E i \in 1..Len(sent) :
          sent[i].msg.type = "init" /\ sent[i].msg.forceFields # <<>>
    /\ nextForceId > Len(forceFields)
    /\ Len(players) < nextId

-----------------------------------------------------------------------------
\* C21: a connecting player gets the first palette entry, in palette order,
\* that no connected player holds; only when all eight entries are held is
\* its colour some other palette entry.  The colour is always in the palette.
IsConnection == event.handler.type = "connection"
Joined == Get(players, event.handler.id)
HeldColors(ps) == {ps[i].color : i \in 1..Len(ps)}

C21_FirstFreeColor ==
    IsConnection =>
        LET free == {i \in 1..Len(COLORS) :
                        COLORS[i] \notin HeldColors(Before.players)}
        IN  /\ Joined.color \in Range(COLORS)
            /\ free # {} =>
                  \E i \in free : /\ \A j \in free : i <= j
                                  /\ Joined.color = COLORS[i]

\* a connection that finds the whole palette held and gets a colour other
\* than the first, now held twice
C21_Witness ==
    /\ IsConnection
    /\ HeldColors(Before.players) = Range(COLORS)
    /\ Joined.color # COLORS[1]
    /\ Len(players) = Len(COLORS) + 1

-----------------------------------------------------------------------------
\* C22: on connect the new connection is sent exactly one init (its id and
\* colour, the players including itself, the force fields, all territories,
\* the match metadata) and no player_joined; every other open connection is
\* sent exactly one player_joined carrying the new player.
C22_InitAndPlayerJoined ==
    /\ IsConnection =>
        LET id == event.handler.id
            others == SelectSeq(clients, LAMBDA c : c.id # id
                                                    /\ c.readyState = "OPEN")
        IN  /\ Joined \in Range(players) /\ Joined \notin Range(Before.players)
            /\ sent = <<[to |-> id,
                         msg |-> [type |-> "init", id |-> id,
                                  color |-> Joined.color,
                                  players |-> players,
                                  forceFields |-> forceFields,
                                  territories |-> TerritoryList(territories),
                                  match |-> matchMetadata]]>>
                      \o [i \in 1..Len(others) |->
                            [to |-> others[i].id,
                             msg |-> [type |-> "player_joined",
                                      player |-> Joined]]]
    /\ ~IsConnection =>
          \A i \in 1..Len(sent) :
              sent[i].msg.type \notin {"init", "player_joined"}

\* a connection that finds a force field, an open client (told) and a client
\* that is no longer open (not told)
C22_Witness ==
    /\ IsConnection
    /\ forceFields # <<>>
    /\ Len(sent) >= 2
    /\ Len(sent) < Len(clients)

-----------------------------------------------------------------------------
\* C23: an add_force message from a connected player, whatever the phase and
\* however many force fields the player already has, adds exactly one force
\* field, owned by the sender, and force_added carrying it is sent at once
\* to every open connection, the sender's included.
IsAddForce ==
    event.handler.type = "message" /\ event.handler.kind = "add_force"

C23_AddForce ==
    IsAddForce =>
        LET open == SelectSeq(clients, LAMBDA c : c.readyState = "OPEN")
        IN  /\ Len(forceFields) = Len(Before.forceFields) + 1
            /\ SubSeq(forceFields, 1, Len(Before.forceFields))
                 = Before.forceFields
            /\ LET f == forceFields[Len(forceFields)]
               IN  /\ f.ownerId = event.handler.id
                   /\ f.ownerId \in Ids(players)
                   /\ \A g \in Range(Before.forceFields) : g.id # f.id
                   /\ sent = [i \in 1..Len(open) |->
                                [to |-> open[i].id,
                                 msg |-> [type |-> "force_added",
                                          force |-> f]]]

\* in post_match a player that already has a force field adds another and
\* is itself sent the force_added
C23_Witness ==
    /\ IsAddForce
    /\ Phase = "post_match"
    /\ \E g \in Range(Before.forceFields) : g.ownerId = event.handler.id
    /\ \E i \in 1..Len(sent) : sent[i].to = event.handler.id

-----------------------------------------------------------------------------
\* C24: every tick sends one sync to every open connection; its players are
\* exactly the connected players with a non-null position, its territories
\* are all three territories, and its match is the match metadata as the
\* tick's phase evaluation left it.
C24_SyncContents ==
    IsTick =>
        LET open == SelectSeq(clients, LAMBDA c : c.readyState = "OPEN")
        IN  /\ Len(sent) = Len(open)
            /\ \A i \in 1..Len(sent) :
                  /\ sent[i].to = open[i].id
                  /\ sent[i].msg.type = "sync"
                  /\ sent[i].msg.players
                       = SelectSeq(players, LAMBDA p : p.position # NULL)
                  /\ sent[i].msg.territories = TerritoryList(territories)
                  /\ {sent[i].msg.territories[k].id : k \in 1..3} = TerritoryIds
                  /\ sent[i].msg.match = matchMetadata

\* a tick that changes the phase, with one player positioned and another not
C24_Witness ==
    /\ IsTick
    /\ Before.matchMetadata.phase # Phase
    /\ sent # <<>>
    /\ Len(sent[1].msg.players) = 1
    /\ Len(players) = 2

-----------------------------------------------------------------------------
\* C25: a frame that cannot be decoded, a frame of an unknown type and a
\* hit_territory naming no territory leave players, clients, force fields,
\* territories and match metadata unchanged and send nothing to anybody; the
\* sender stays registered.
IsRejected ==
    /\ event.handler.type = "message"
    /\ \/ event.handler.kind \in {f.type : f \in OtherFrames}
       \/ event.handler.kind = "hit_territory" /\ ~event.handler.applied

C25_RejectedFrameIsSilent ==
    /\ IsRejected => World = Before /\ sent = <<>>
    /\ IsAppliedHit => HitTarget \in TerritoryIds

\* during a match a registered player's hit does not reach the arithmetic:
\* it named no territory
C25_Witness ==
    /\ IsHit /\ ~event.handler.applied
    /\ Phase = "in_match"
    /\ players # <<>>
    /\ inputs < MaxInputs

-----------------------------------------------------------------------------
\* C26: a cursor, add_force or hit_territory handled for a connection whose
\* id is no longer in the player registry is a no-op.  Stated from the other
\* side: a message that changed the world or sent something came from a
\* registered player (a cursor changes only the entry of its sender).
IsMessage == event.handler.type = "message"

C26_LateMessageIsNoOp ==
    (IsMessage /\ (World # Before \/ sent # <<>>)) =>
        CASE event.handler.kind \in {"add_force", "hit_territory"} ->
                event.handler.id \in Ids(Before.players)
          [] event.handler.kind = "cursor" ->
                Ids(players) = Ids(Before.players)
          [] OTHER -> FALSE

-----------------------------------------------------------------------------
\* C27: a territory's controllingColor is null exactly when no hit has
\* captured it since the last round reset: a reset makes it null, only an
\* applied hit on the territory gives it a colour (the hitter's), and only a
\* reset takes the colour away.
C27_ColorUntilReset ==
    \A t \in TerritoryIds :
        LET old == Before.territories[t].controllingColor
            new == territories[t].controllingColor
        IN  /\ RoundReset => new = NULL
            /\ (old # NULL /\ new = NULL) => RoundReset
            /\ (old = NULL /\ new # NULL) =>
                  IsAppliedHit /\ HitTarget = t /\ new = HitColor

\* a territory taken with exactly 0 points left keeps its new colour
C27_Witness ==
    /\ IsAppliedHit
    /\ Before.territories[HitTarget].controllingColor # NULL
    /\ Before.territories[HitTarget].controllingColor # HitColor
    /\ territories[HitTarget].points = 0
    /\ territories[HitTarget].controllingColor = HitColor

-----------------------------------------------------------------------------
\* C28: the territories are always t1, t2, t3 with the position and radius
\* they were created with, and a territory's points and controllingColor are
\* changed only by a hit_territory handled in in_match (on that territory)
\* and by a round reset: connect, disconnect, cursor, add_force and every
\* tick without a reset leave every territory as it was.
C28_TerritoryFrame ==
    /\ DOMAIN territories = {"t1", "t2", "t3"}
    /\ \A t \in DOMAIN territories :
          /\ territories[t].id = t
          /\ territories[t].position = TerritoryPosition[t]
          /\ territories[t].radius = TERRITORY_RADIUS
          /\ territories[t] # Before.territories[t] =>
                \/ RoundReset
                \/ /\ IsAppliedHit /\ HitTarget = t
                   /\ Before.matchMetadata.phase = "in_match"

\* the last player leaves in the middle of a match: the territories keep
\* what the match made of them
C28_Witness ==
    /\ IsClose
    /\ players = <<>>
    /\ Phase = "in_match"
    /\ ~Neutral(territories)
    /\ territories = Before.territories

-----------------------------------------------------------------------------
\* C29: the match metadata (phase, roundEndsAt, winningPlayerId,
\* winningColor, scoreboard) is changed only by the tick: connect, disconnect
\* and every client message leave all of it unchanged.
C29_MatchMetadataFrame ==
    ~IsTick => matchMetadata = Before.matchMetadata

\* the round's winner, the last player, leaves during post_match: phase,
\* deadline, winner and scoreboard stay as they were
C29_Witness ==
    /\ IsClose
    /\ players = <<>>
    /\ Phase = "post_match"
    /\ matchMetadata.winningPlayerId = event.handler.id
    /\ DOMAIN matchMetadata.scoreboard.players # {}

-----------------------------------------------------------------------------
\* C30: hit_territory messages are applied to a territory one at a time in
\* arrival order, nothing being aggregated across messages or attackers:
\* each handled hit takes the territory as the previous handler left it to
\* the result of the single-hit rule, and touches no other territory.  The
\* rule does not commute: two hits by players of different colours on one
\* territory can end differently in their two orders.
HitRule(t, color, raw) ==
    LET amount == raw \div 10
    IN  IF t.controllingColor = color
        THEN [t EXCEPT !.points = IF @ + amount > 100 THEN 100 ELSE @ + amount]
        ELSE IF t.points - amount <= 0
             THEN [t EXCEPT !.controllingColor = color,
                            !.points = amount - @]
             ELSE [t EXCEPT !.points = @ - amount]

C30_ArrivalOrder ==
    IsAppliedHit =>
        territories = [Before.territories EXCEPT
                          ![HitTarget] = HitRule(@, HitColor, HitAmount)]

\* a hit has just been applied, and a hit by a connected player of another
\* colour on the same territory gives one result when applied after it and
\* another when applied before it
C30_Witness ==
    /\ IsAppliedHit
    /\ \E q \in Range(players), a \in RawAmounts :
          /\ q.color # HitColor
          /\ ApplyHit(territories[HitTarget], q.color, a)
               # ApplyHit(ApplyHit(Before.territories[HitTarget], q.color, a),
                          HitColor, HitAmount)

-----------------------------------------------------------------------------
\* C31: no message of any kind is sent to a connection that is not open at
\* that moment: every message a handler sends goes to a registered connection
\* whose socket is OPEN, the init of a new connection included.
OpenIds(cs) == {cs[i].id : i \in {k \in 1..Len(cs) : cs[k].readyState = "OPEN"}}

MessageTypes == {"init", "player_joined", "player_left", "force_added", "sync"}

-----------------------------------------------------------------------------
\* C32: a tick is one step: phase evaluation, then force-field expiry, then
\* the sync built and sent.  Nobody connects or disconnects inside it, every
\* force field left by it is within its time to live, and every sync it
\* sends shows the players, territories and match metadata as the tick left
\* them; the sync lists the force fields exactly when the expiry (which runs
\* on what the phase evaluation left) removed one, and then as the tick left
\* them.
C32_TickIsAtomic ==
    IsTick =>
        /\ players = Before.players
        /\ clients = Before.clients
        /\ event.now = clock
        /\ \A f \in Range(forceFields) : f \in Range(Before.forceFields) /\ Young(f)
        /\ \A i \in 1..Len(sent) :
              LET m == sent[i].msg
                  listed == "forceFields" \in DOMAIN m
              IN  /\ m.players = SelectSeq(players, LAMBDA p : p.position # NULL)
                  /\ m.territories = TerritoryList(territories)
                  /\ m.match = matchMetadata
                  /\ listed <=> (~RoundReset /\ Len(forceFields) < Len(Before.forceFields))
                  /\ listed => m.forceFields = forceFields

\* one tick that both moves the phase on and expires a force field, and
\* tells an open connection of both
C32_Witness ==
    /\ IsTick
    /\ Before.matchMetadata.phase # Phase
    /\ Len(forceFields) < Len(Before.forceFields)
    /\ sent # <<>>
    /\ sent[1].msg.match.phase = Phase
    /\ "forceFields" \in DOMAIN sent[1].msg

-----------------------------------------------------------------------------
\* C33: with a player connected, ticks occurring and time advancing, the
\* match cycles: from any state the phase becomes in_match, every in_match
\* becomes post_match and every post_match becomes countdown again.  (Said
\* of the states that leave the clock room, below MaxClock, for the phases
\* in between: each step of the clock may pass a deadline by less than 5 s.)
RoomFor(ms) == clock + ms <= MaxClock
\* the longest step of the clock
Overrun == CHOOSE d \in CycleSteps : \A e \in CycleSteps : e <= d

C33_MatchCycles ==
    /\ (players # <<>> /\ RoomFor(RoundLength + 3 * Overrun))
          ~> (Phase = "in_match")
    /\ (players # <<>> /\ Phase = "in_match"
                       /\ RoomFor(MATCH_DURATION_MS + Overrun))
          ~> (Phase = "post_match")
    /\ (players # <<>> /\ Phase = "post_match"
                       /\ RoomFor(POST_MATCH_DURATION_MS + Overrun))
          ~> (Phase = "countdown")

\* the cycle closes: a second round's match begins with the players still
\* connected
C33_Witness ==
    /\ IsTick
    /\ players # <<>>
    /\ Before.matchMetadata.phase = "countdown"
    /\ Phase = "in_match"
    /\ clock >= RoundLength + COUNTDOWN_DURATION_MS

-----------------------------------------------------------------------------
\* C34: in every reachable state winningColor and winningPlayerId are both
\* null unless the phase is post_match, and winningPlayerId is non-null only
\* when winningColor is non-null.
C34_WinnerOnlyInPostMatch ==
    /\ Phase # "post_match" =>
          /\ matchMetadata.winningColor = NULL
          /\ matchMetadata.winningPlayerId = NULL
    /\ matchMetadata.winningPlayerId # NULL => matchMetadata.winningColor # NULL

\* the countdown of the next round, entered from a post_match that published
\* a winning colour and a winning player
C34_Witness ==
    /\ IsTick
    /\ Before.matchMetadata.phase = "post_match"
    /\ Before.matchMetadata.winningColor # NULL
    /\ Before.matchMetadata.winningPlayerId # NULL
    /\ Phase = "countdown"

-----------------------------------------------------------------------------
\* C35: in every reachable state with phase countdown every territory has
\* points 0 and controllingColor null, so every in_match phase begins with
\* all territories neutral.
C35_CountdownIsNeutral ==
    /\ Phase = "countdown" => Neutral(territories)
    /\ (IsTick /\ Before.matchMetadata.phase = "countdown" /\ Phase = "in_match")
          => Neutral(territories)

\* a hit handled during the countdown that follows a round somebody won
C35_Witness ==
    /\ IsHit
    /\ Phase = "countdown"
    /\ players # <<>>
    /\ DOMAIN matchMetadata.scoreboard.colors # {}

-----------------------------------------------------------------------------
\* C36: throughout post_match the territories do not change, so the
\* published winningColor is always the winner the end-of-match rule gives
\* for the territories as they stand: null with no territory controlled,
\* otherwise a controlling colour no other outranks and that comes first in
\* territory order among its equals.
IsWinner(terr, w) ==
    IF Controlling(terr) = {} THEN w = NULL
    ELSE /\ w \in Controlling(terr)
         /\ \A c \in Controlling(terr) \ {w} :
               /\ ~Outranks(terr, c, w)
               /\ ~Outranks(terr, w, c) => FirstPlace(terr, w) < FirstPlace(terr, c)

C36_WinnerStandsInPostMatch ==
    Phase = "post_match" =>
        /\ IsWinner(territories, matchMetadata.winningColor)
        /\ Before.matchMetadata.phase = "post_match"
              => territories = Before.territories

\* a hit handled in post_match, a winner published, and a connected player
\* of another colour
C36_Witness ==
    /\ IsHit
    /\ Phase = "post_match"
    /\ matchMetadata.winningColor # NULL
    /\ \E p \in Range(players) : p.color # matchMetadata.winningColor

-----------------------------------------------------------------------------
\* C37: with every reported hit amount positive, a territory whose
\* controllingColor is null has points 0 in every reachable state; so the
\* first hit applied to a neutral territory makes the attacker's colour its
\* controller.
C37_NeutralHasNoPoints ==
    (\A a \in RawAmounts : a > 0) =>
        /\ \A t \in TerritoryIds :
              territories[t].controllingColor = NULL => territories[t].points = 0
        /\ (IsAppliedHit /\ Before.territories[HitTarget].controllingColor = NULL)
              => territories[HitTarget].controllingColor = HitColor

\* the first hit on a neutral territory: it finds 0 points and gives the
\* territory to the attacker
C37_Witness ==
    /\ IsAppliedHit
    /\ Before.territories[HitTarget].controllingColor = NULL
    /\ Before.territories[HitTarget].points = 0
    /\ territories[HitTarget].controllingColor = HitColor
    /\ territories[HitTarget].points > 0

-----------------------------------------------------------------------------
\* C38: while no more players are connected at once than the palette has
\* colours (8), the connected players hold pairwise distinct colours, also
\* after disconnects and reconnects.  (The connections of this specification
\* only add players, so the count has never been higher than it is.)
DistinctColors(ps) ==
    \A i, j \in 1..Len(ps) : ps[i].color = ps[j].color => i = j

C38_DistinctColors ==
    Len(players) <= Len(COLORS) => DistinctColors(players)

\* after some of the first eight players left, a reconnection fills the
\* palette again, taking a colour that had been given up
C38_Witness ==
    /\ IsConnection
    /\ Len(Before.players) = Len(COLORS) - 1
    /\ Len(players) = Len(COLORS)
    /\ Joined.color # COLORS[Len(COLORS)]
    /\ nextId = Len(COLORS) + 2

-----------------------------------------------------------------------------
\* C39: the colour a capture is credited to and the ownerId of a force field
\* are the server-assigned colour and id of the sending connection.  Two
\* frames of one sender that differ only in what the client claims (a
\* colour, a player id) leave the same territories; an applied hit gives
\* the territory to nobody but the sender's colour; a force field is owned
\* by its sender; and a player's id and colour stay as assigned while it is
\* connected.
HitOutcome(id, data) ==
    IF HitApplies(World, id, data) THEN hitTerritory(World, id, data)
    ELSE territories

C39_ServerAssignedIdentity ==
    /\ \A id \in Ids(players), t \in HitTargets, a \in RawAmounts :
          \A d1, d2 \in ClaimedHits(t, a) :
              HitOutcome(id, d1) = HitOutcome(id, d2)
    /\ IsAppliedHit =>
          territories[HitTarget].controllingColor
             \in {Before.territories[HitTarget].controllingColor, HitColor}
    /\ IsAddForce =>
          /\ forceFields[Len(forceFields)].ownerId = event.handler.id
          /\ \A k \in 1..Len(Before.forceFields) :
                forceFields[k].ownerId = Before.forceFields[k].ownerId
    /\ \A p \in Range(Before.players) :
          p.id \in Ids(players) => Get(players, p.id).color = p.color
    /\ \A i, j \in 1..Len(players) : players[i].id = players[j].id => i = j

\* a hit whose frame names another player's id and another colour captures
\* the territory for the sender's own colour
C39_Witness ==
    /\ IsAppliedHit
    /\ event.handler.data.playerId # event.handler.id
    /\ event.handler.data.color # HitColor
    /\ Before.territories[HitTarget].controllingColor # HitColor
    /\ territories[HitTarget].controllingColor = HitColor
    /\ \E p \in Range(players) : p.color = event.handler.data.color

=============================================================================
